---- MODULE Spec2Model ----
(***************************************************************************)
(* State-machine model of the request path of the resource server:         *)
(*   AuthorizingHttpHandler.handle   (src/src/server/AuthorizingHttpHandler.ts)        *)
(*   RepresentationPatchHandler.handle (src/src/storage/patch/RepresentationPatchHandler.ts) *)
(*   PassthroughStore                (src/src/storage/PassthroughStore.ts)  *)
(*   ContainerInitializer.handle     (src/unnamed/part_000)                 *)
(*   VarResolver.handle              (src/unnamed/part_001)                 *)
(* Every await of the source is one step: the awaited collaborator runs,   *)
(* returns or throws, and the handler continues up to its next await.      *)
(***************************************************************************)
EXTENDS Integers, Sequences, FiniteSets, TLC

(***************************************************************************)
(* Bounds and data                                                         *)
(***************************************************************************)
\* longest delete / insert quad list of a generated patch
MaxQuads == 1
\* PassthroughStore calls made in one run of SpecPass
MaxCalls == 2
\* resources the generator of ContainerInitializer yields at most
MaxResources == 2
\* longest listing of the account folder
MaxFiles == 2
\* command-line arguments after the executable and the script
MaxArgs == 2
\* PassthroughStores nested around one store
MaxChain == 2

\* the handle calls that can be in flight; Reqs are those of the
\* one-request-at-a-time specification
Runs == {"r1", "r2"}
Reqs == {"r1"}

Root == "/"
Docs == {"/a"}
Ids == {Root} \cup Docs

Undefined == "undefined"

\* predicate = 'http://zteq.com/ac/0.1/secureOff'
SecureOffPredicate == "secureOff"
Predicates == {SecureOffPredicate, "other"}
Quad(p, o) == [predicate |-> p, object |-> o]
Quads == {Quad(p, o) : p \in Predicates, o \in Docs}
Contents == SUBSET Quads

Error(kind, by) == [kind |-> kind, by |-> by]
Ok(v) == [ok |-> TRUE, value |-> v]
Fail(e) == [ok |-> FALSE, error |-> e]
Pending == [ok |-> FALSE, error |-> Error("none", "pending")]

(***************************************************************************)
(* State                                                                   *)
(***************************************************************************)
VARIABLES
  pc,            \* position of each request in the handlers
  input0,        \* the operation as the caller passed it in
  operation,     \* the operation object, mutated in place by handle
  loc,           \* handle's locals: credentials, modes, permissionSet, ...
  calls,         \* per request: calls made on the injected collaborators
  io,            \* per request: operations on durable storage
  forwarded,     \* the operation as operationHandler.handleSafe received it
  result,        \* outcome of the request as the caller sees it
  raised,        \* per request: every error a callee threw during handle
  store,         \* durable storage: the files behind store chain and accessor
  pcalls,        \* PassthroughStore: calls received by the decorator D
  scalls,        \* PassthroughStore: calls observed by the source S
  sresults,      \* PassthroughStore: what S answered to each call
  presults,      \* PassthroughStore: what D returned for each call
  script,        \* test doubles: the outcome each double is set up to give
  writer,        \* conditional writers: position, token read, outcome
  versioned,     \* the store behind the decorators: representation and token
  initializer,   \* ContainerInitializer: configuration, position and effects
  resolver       \* VarResolver: argv, parsed args, computer calls, outcome

vars == <<pc, input0, operation, loc, calls, io, forwarded, result, raised,
          store, pcalls, scalls, sresults, presults,
          script, writer, versioned, initializer, resolver>>
reqVars == <<pc, input0, operation, loc, calls, io, forwarded, result, raised>>
passVars == <<pcalls, scalls, sresults, presults>>
condVars == <<writer, versioned>>
\* everything outside the request path
sideVars == <<passVars, script, condVars, initializer, resolver>>

(***************************************************************************)
(* Durable storage.  A file is [exists, data, secure]: data is the set of  *)
(* quads stored, secure is the flag the file was last written with         *)
(* (1 = secured, 0 = written with {secure: {enable: 0}}).  The data of a    *)
(* container is its metadata.                                              *)
(***************************************************************************)
NoFile == [exists |-> FALSE, data |-> {}, secure |-> 1]
File(d, s) == [exists |-> TRUE, data |-> d, secure |-> s]

NoRep == [present |-> FALSE, data |-> {}]
Rep(d) == [present |-> TRUE, data |-> d]

\* preferences.secure: absent, or {enable: 0 | 1}
NoSecure == [set |-> FALSE, enable |-> 1]
Secure(e) == [set |-> TRUE, enable |-> e]
\* the flag a write uses when its options carry no secure entry
EnableOf(sec) == IF sec.set THEN sec.enable ELSE 1

\* SingleRootIdentifierStrategy('http://localhost:3001')
isRootContainer(id) == id = Root
getParentContainer(id) == Root

\* storage operation records kept in io
IoRead(via, op, id) == [via |-> via, op |-> op, id |-> id, write |-> FALSE, changed |-> FALSE]
IoWrite(via, op, id, chg) == [via |-> via, op |-> op, id |-> id, write |-> TRUE, changed |-> chg]

(***************************************************************************)
(* Request data of the authorization pipeline                              *)
(***************************************************************************)
Anonymous == "anonymous"
CredentialSets == {Anonymous, "alice"}
Modes == {"read", "append", "create", "write", "delete", "control"}
Methods == {"GET", "PATCH"}

NoPermissions == [attached |-> FALSE, granted |-> {}]
\* a permission set with no mode granted, whatever the reader returned
PermissionsNone(g) == [attached |-> TRUE, granted |-> {}]
Permissions(g) == [attached |-> TRUE, granted |-> g]
NoAttributes == [attached |-> FALSE, readOnly |-> {}, hide |-> {}]
Attributes(ro) == [attached |-> TRUE, readOnly |-> ro, hide |-> {}]

\* what the permission reader can answer: the granted modes, and the
\* attribute lists it filled into the attributePermissions object it was given
ReaderAnswers == {[granted |-> {}, readOnly |-> {}],
                  [granted |-> Modes, readOnly |-> {}],
                  [granted |-> Modes, readOnly |-> {"attr"}]}

NoLoc == [credentials |-> Undefined, modes |-> {}, permissionSet |-> {},
          readOnly |-> {}, representation |-> NoRep, patched |-> NoRep,
          todo |-> <<>>, data |-> {}]

Call(callee, op, args, outcome) ==
  [callee |-> callee, op |-> op, args |-> args, outcome |-> outcome]

(***************************************************************************)
(* Patches.  A SparqlUpdatePatch carries an algebra that is one            *)
(* delete/insert update or a composite of updates; any other patch has no  *)
(* algebra.  A delete or insert list that the update does not have is      *)
(* marked by hasDelete / hasInsert = FALSE.                                *)
(***************************************************************************)
QuadLists == UNION {[1..n -> Quads] : n \in 0..MaxQuads}
Update(hd, d, hi, i) == [hasDelete |-> hd, delete |-> d, hasInsert |-> hi, insert |-> i]
NoUpdate == Update(FALSE, <<>>, FALSE, <<>>)
DeleteOnly == {Update(TRUE, d, FALSE, <<>>) : d \in QuadLists}
InsertOnly == {Update(FALSE, <<>>, TRUE, i) : i \in QuadLists}
OneQuad == {<<q>> : q \in Quads}
Updates == DeleteOnly \cup InsertOnly
             \cup {Update(TRUE, d, TRUE, i) : d \in OneQuad, i \in OneQuad}

Algebra(c, us, u) == [present |-> TRUE, composite |-> c, updates |-> us, single |-> u]
NoAlgebra == [present |-> FALSE, composite |-> FALSE, updates |-> <<>>, single |-> NoUpdate]
OpaquePatch == [algebra |-> NoAlgebra]
NoPatch == [algebra |-> NoAlgebra]
SinglePatches == {[algebra |-> Algebra(FALSE, <<>>, u)] : u \in Updates}
CompositePatches ==
  {[algebra |-> Algebra(TRUE, <<Update(FALSE, <<>>, TRUE, i), Update(TRUE, d, FALSE, <<>>)>>,
                         NoUpdate)] : i \in OneQuad, d \in OneQuad}
Patches == {OpaquePatch} \cup SinglePatches \cup CompositePatches

RECURSIVE FindDelete(_, _)
\* updates.find(item => item.delete): index of the first update from i on
\* that has a delete list, 0 if none
FindDelete(us, i) ==
  IF i > Len(us) THEN 0
  ELSE IF us[i].hasDelete THEN i
  ELSE FindDelete(us, i + 1)

RECURSIVE FindInsert(_, _)
\* updates.find(item => item.insert)
FindInsert(us, i) ==
  IF i > Len(us) THEN 0
  ELSE IF us[i].hasInsert THEN i
  ELSE FindInsert(us, i + 1)

\* algebra.updates?.find(item => item.delete)?.delete || algebra.delete || {}
DeleteData(algebra) ==
  LET k == IF algebra.composite THEN FindDelete(algebra.updates, 1) ELSE 0
  IN IF k > 0 THEN algebra.updates[k].delete
     ELSE IF algebra.single.hasDelete THEN algebra.single.delete
     ELSE <<>>

\* algebra.updates?.find(item => item.insert)?.insert || algebra.insert || {}
InsertData(algebra) ==
  LET k == IF algebra.composite THEN FindInsert(algebra.updates, 1) ELSE 0
  IN IF k > 0 THEN algebra.updates[k].insert
     ELSE IF algebra.single.hasInsert THEN algebra.single.insert
     ELSE <<>>

RECURSIVE SecurePaths(_)
\* Object.values(data).filter(quad => quad.predicate.value === predicate)
\*                    .map(quad => quad.object.value)
SecurePaths(quads) ==
  IF quads = <<>> THEN <<>>
  ELSE LET rest == SecurePaths(Tail(quads))
       IN IF Head(quads).predicate = SecureOffPredicate
          THEN <<Head(quads).object>> \o rest
          ELSE rest

\* the operation slot of a request that has not arrived
NoOperation == [target |-> Root, method |-> "GET", body |-> NoPatch,
                preferences |-> [secure |-> NoSecure],
                permissionSet |-> NoPermissions,
                attributePermissions |-> NoAttributes]

(***************************************************************************)
(* Shared steps of a request                                               *)
(***************************************************************************)
Log(r, c) == calls' = [calls EXCEPT ![r] = Append(@, c)]

\* the handler rejects with error e: the caller sees e
Throw(r, e) ==
  /\ result' = [result EXCEPT ![r] = Fail(e)]
  /\ pc' = [pc EXCEPT ![r] = "failed"]

Raise(r, e) == raised' = [raised EXCEPT ![r] = Append(@, e)]

\* an operation arrives: { request, operation } as the caller built it
Receive(r) ==
  /\ pc[r] = "idle"
  /\ \E target \in Ids, method \in Methods, sec \in {NoSecure, Secure(0)} :
       \E body \in IF method = "PATCH" THEN Patches ELSE {NoPatch} :
         LET op == [target |-> target, method |-> method, body |-> body,
                    preferences |-> [secure |-> sec],
                    permissionSet |-> NoPermissions,
                    attributePermissions |-> NoAttributes]
         IN /\ operation' = [operation EXCEPT ![r] = op]
            /\ input0' = [input0 EXCEPT ![r] = op]
  /\ pc' = [pc EXCEPT ![r] = "credentials"]
  /\ UNCHANGED <<loc, calls, io, forwarded, result, raised, store, sideVars>>

(***************************************************************************)
(* AuthorizingHttpHandler.handle                                           *)
(***************************************************************************)
\* the statement order of handle: the await that follows each await
NextStageSkipsReader(stage) ==
  CASE stage = "credentials" -> "modes"
    [] stage = "modes" -> "authorize"
    [] stage = "permissions" -> "authorize"
    [] stage = "authorize" -> "secure"
    [] stage = "secure" -> "forward"

NextStage(stage) ==
  CASE stage = "credentials" -> "modes"
    [] stage = "modes" -> "permissions"
    [] stage = "permissions" -> "authorize"
    [] stage = "authorize" -> "secure"
    [] stage = "secure" -> "forward"

\* const credentials = await this.credentialsExtractor.handleSafe(request)
ExtractCredentials(r) ==
  /\ pc[r] = "credentials"
  /\ \E out \in {Ok(c) : c \in CredentialSets}
                  \cup {Fail(Error("ValidationError", "credentialsExtractor"))} :
       /\ Log(r, Call("credentialsExtractor", "handleSafe", [request |-> r], out))
       /\ IF out.ok
          THEN /\ loc' = [loc EXCEPT ![r].credentials = out.value]
               /\ pc' = [pc EXCEPT ![r] = NextStage("credentials")]
               /\ UNCHANGED <<result, raised>>
          ELSE /\ Raise(r, out.error)
               /\ Throw(r, out.error)
               /\ UNCHANGED loc
  /\ UNCHANGED <<input0, operation, io, forwarded, store, sideVars>>

\* the modes an operation requires, by the requested action
RequiredModes(op) ==
  IF op.method = "GET" THEN {"read"} ELSE {"read", "write", "append"}

\* const modes = await this.modesExtractor.handleSafe(operation)
ExtractModes(r) ==
  /\ pc[r] = "modes"
  /\ \E out \in {Ok(RequiredModes(operation[r])),
                 Fail(Error("ValidationError", "modesExtractor"))} :
       /\ Log(r, Call("modesExtractor", "handleSafe",
                      [target |-> operation[r].target], out))
       /\ IF out.ok
          THEN /\ loc' = [loc EXCEPT ![r].modes = out.value]
               /\ pc' = [pc EXCEPT ![r] = NextStage("modes")]
               /\ UNCHANGED <<result, raised>>
          ELSE /\ Raise(r, out.error)
               /\ Throw(r, out.error)
               /\ UNCHANGED loc
  /\ UNCHANGED <<input0, operation, io, forwarded, store, sideVars>>

\* const attributePermissions = { readOnly: [], hide: [] };
\* const permissionSet = await this.permissionReader.handleSafe(
\*   { credentials, identifier: operation.target, modes, attributePermissions })
\* The reader may fill the attributePermissions object it was handed.
ReadPermissions(r) ==
  /\ pc[r] = "permissions"
  /\ \E out \in {Ok(a) : a \in ReaderAnswers}
                  \cup {Fail(Error("InternalError", "permissionReader"))} :
       /\ Log(r, Call("permissionReader", "handleSafe",
                      [credentials |-> loc[r].credentials,
                       identifier |-> operation[r].target,
                       modes |-> loc[r].modes], out))
       /\ IF out.ok
          THEN /\ loc' = [loc EXCEPT ![r].permissionSet = out.value.granted,
                                     ![r].readOnly = out.value.readOnly]
               /\ pc' = [pc EXCEPT ![r] = NextStage("permissions")]
               /\ UNCHANGED <<result, raised>>
          ELSE /\ Raise(r, out.error)
               /\ Throw(r, out.error)
               /\ UNCHANGED loc
  /\ UNCHANGED <<input0, operation, io, forwarded, store, sideVars>>

\* the authorizer's decision: every required mode must be granted;
\* otherwise Unauthorized for an anonymous agent and Forbidden for a known one
AuthorizerOutcome(credentials, modes, permissionSet) ==
  IF modes \subseteq permissionSet THEN Ok(TRUE)
  ELSE IF credentials = Anonymous
       THEN Fail(Error("Unauthorized", "authorizer"))
       ELSE Fail(Error("Forbidden", "authorizer"))

\* a catch block that logs the error and goes on to the next statement
AuthorizationFailedSwallowed(r, e) ==
  /\ Raise(r, e)
  /\ pc' = [pc EXCEPT ![r] = "secure"]
  /\ UNCHANGED result

\* catch (error) { this.logger.verbose(...); throw error; }
AuthorizationFailed(r, e) ==
  /\ Raise(r, e)
  /\ Throw(r, e)

\* a handler that keeps the values of the call in fields of its own, where
\* every call finds those of the first
LocalsShared(r) == loc["r1"]

\* const credentials, modes, attributePermissions, permissionSet: bindings of
\* the call r itself
Locals(r) == loc[r]

\* try { await this.authorizer.handleSafe({ credentials, identifier, modes, permissionSet });
\*       operation.permissionSet = permissionSet;
\*       operation.attributePermissions = attributePermissions;
\* } catch (error) { throw error; }
Authorize(r) ==
  /\ pc[r] = "authorize"
  /\ LET out == AuthorizerOutcome(Locals(r).credentials, Locals(r).modes,
                                  Locals(r).permissionSet)
     IN /\ Log(r, Call("authorizer", "handleSafe",
                       [credentials |-> Locals(r).credentials,
                        identifier |-> operation[r].target,
                        modes |-> Locals(r).modes,
                        permissionSet |-> Locals(r).permissionSet], out))
        /\ IF out.ok
           THEN /\ operation' = [operation EXCEPT
                     ![r].permissionSet = Permissions(Locals(r).permissionSet),
                     ![r].attributePermissions = Attributes(Locals(r).readOnly)]
                /\ pc' = [pc EXCEPT ![r] = NextStage("authorize")]
                /\ UNCHANGED <<result, raised>>
           ELSE /\ AuthorizationFailed(r, out.error)
                /\ UNCHANGED operation
  /\ UNCHANGED <<input0, loc, io, forwarded, store, sideVars>>

\* a filter that keeps nothing
FilteredListEmpty(file, target) == {}

\* metadata.getAll(secureOff).filter(item => item.value === operation.target.path)
FilteredList(file, target) ==
  {q \in file.data : q.predicate = SecureOffPredicate /\ q.object = target}

\* a catch block that hands the lookup's error on to the caller
SecureFailedRethrown(r, e) ==
  /\ Raise(r, e)
  /\ Throw(r, e)
  /\ UNCHANGED operation

\* catch(err){ console.log(err); }: handle goes on to the forward
SecureFailed(r, e) ==
  /\ Raise(r, e)
  /\ pc' = [pc EXCEPT ![r] = NextStage("secure")]
  /\ UNCHANGED <<operation, result>>

\* try { if (!identifierStrategy.isRootContainer(operation.target)) {
\*         const metadata = await accessor.getMetadata(parent); ...
\*         operation.preferences.secure = { enable: filteredList.length ? 0 : 1 }; }
\* } catch (err) { console.log(err); }
SecureLookup(r) ==
  /\ pc[r] = "secure"
  /\ LET target == operation[r].target
         parent == getParentContainer(target)
     IN IF isRootContainer(target)
        THEN /\ pc' = [pc EXCEPT ![r] = NextStage("secure")]
             /\ UNCHANGED <<operation, io, raised, result>>
        ELSE \E failed \in BOOLEAN :
               /\ io' = [io EXCEPT ![r] = Append(@, IoRead("accessor", "getMetadata", parent))]
               /\ IF failed \/ ~store[parent].exists
                  THEN SecureFailed(r, Error("InternalError", "accessor"))
                  ELSE /\ operation' = [operation EXCEPT ![r].preferences.secure =
                            Secure(IF FilteredList(store[parent], target) # {} THEN 0 ELSE 1)]
                       /\ pc' = [pc EXCEPT ![r] = NextStage("secure")]
                       /\ UNCHANGED <<raised, result>>
  /\ UNCHANGED <<input0, loc, calls, forwarded, store, sideVars>>

\* where the downstream handler takes the operation: a PATCH is carried out
\* by the patch handler, any other operation by one read of the store
DownstreamEntry(op) == IF op.method = "PATCH" THEN "read" ELSE "get"

\* this.logger.file(...); return this.operationHandler.handleSafe(input)
Forward(r) ==
  /\ pc[r] = "forward"
  /\ forwarded' = [forwarded EXCEPT ![r] = operation[r]]
  /\ Log(r, Call("operationHandler", "handleSafe",
                 [target |-> operation[r].target], Pending))
  /\ pc' = [pc EXCEPT ![r] = DownstreamEntry(operation[r])]
  /\ UNCHANGED <<input0, operation, loc, io, result, raised, store, sideVars>>

(***************************************************************************)
(* The backing store the handlers are given as source                      *)
(***************************************************************************)
EmptyPreferences == [secure |-> NoSecure]

\* getRepresentation: NotFound if absent
SourceGet(st, id) ==
  IF st[id].exists
  THEN {Ok(Rep(st[id].data)), Fail(Error("InternalError", "source"))}
  ELSE {Fail(Error("NotFound", "source")), Fail(Error("InternalError", "source"))}

\* setRepresentation: the storage after a full replace / create
SourceSet(st, id, rep, preferences) ==
  [st EXCEPT ![id] = File(rep.data, EnableOf(preferences.secure))]

\* the identifiers setRepresentation reports as changed
SourceChanged(st, id) ==
  IF st[id].exists \/ isRootContainer(id)
  THEN {<<id>>}
  ELSE {<<id>>, <<id, getParentContainer(id)>>}

\* the downstream handler of a read: one getRepresentation on the store
HandleGet(r) ==
  /\ pc[r] = "get"
  /\ LET id == operation[r].target
     IN \E out \in SourceGet(store, id) :
          /\ io' = [io EXCEPT ![r] = Append(@, IoRead("store", "getRepresentation", id))]
          /\ IF out.ok
             THEN /\ result' = [result EXCEPT ![r] = out]
                  /\ pc' = [pc EXCEPT ![r] = "done"]
                  /\ UNCHANGED raised
             ELSE /\ Raise(r, out.error)
                  /\ Throw(r, out.error)
  /\ UNCHANGED <<input0, operation, loc, calls, forwarded, store, sideVars>>

(***************************************************************************)
(* RepresentationPatchHandler.handle({ source, patch, identifier,          *)
(* preferences }), called with the forwarded operation's target, body and  *)
(* preferences                                                             *)
(***************************************************************************)
Range(seq) == {seq[i] : i \in 1..Len(seq)}

\* the patcher: removes the deletions from the representation read (nothing
\* when it is absent) and adds the insertions; a patch of another dialect
\* adds one quad
ApplyPatch(patch, representation) ==
  LET base == IF representation.present THEN representation.data ELSE {}
      a == patch.algebra
      us == IF a.composite THEN Range(a.updates) ELSE {a.single}
      dels == UNION {Range(u.delete) : u \in us}
      inss == UNION {Range(u.insert) : u \in us}
  IN IF a.present THEN Rep((base \ dels) \cup inss)
     ELSE Rep(base \cup {Quad("other", "/a")})

RecoverableAlways(error) == TRUE

RecoverableNever(error) == FALSE

\* NotFoundHttpError.isInstance(error)
Recoverable(error) == error.kind = "NotFound"

\* try { representation = await source.getRepresentation(identifier, {}); }
\* catch (error) { if (!NotFoundHttpError.isInstance(error)) { throw error; } }
GetRepresentation(r) ==
  /\ pc[r] = "read"
  /\ LET id == forwarded[r].target
     IN \E out \in SourceGet(store, id) :
          /\ Log(r, Call("source", "getRepresentation",
                         [identifier |-> id, preferences |-> EmptyPreferences,
                          conditions |-> Undefined], out))
          /\ io' = [io EXCEPT ![r] = Append(@, IoRead("store", "getRepresentation", id))]
          /\ IF out.ok
             THEN /\ loc' = [loc EXCEPT ![r].representation = out.value]
                  /\ pc' = [pc EXCEPT ![r] = "patch"]
                  /\ UNCHANGED <<result, raised>>
             ELSE IF Recoverable(out.error)
             THEN /\ Raise(r, out.error)
                  /\ pc' = [pc EXCEPT ![r] = "patch"]
                  /\ UNCHANGED <<loc, result>>
             ELSE /\ Raise(r, out.error)
                  /\ Throw(r, out.error)
                  /\ UNCHANGED loc
  /\ UNCHANGED <<input0, operation, forwarded, store, sideVars>>

SideOp(op, id, sec) == [op |-> op, id |-> id, secure |-> sec]

RECURSIVE SecureOps(_)
\* for (const path of secureResources) {
\*   const data = await accessor.getData(id, {secure: {'enable': 0}});
\*   await accessor.writeDocument(id, data, new RepresentationMetadata(id)); }
SecureOps(paths) ==
  IF paths = <<>> THEN <<>>
  ELSE <<SideOp("getData", Head(paths), Secure(0)),
         SideOp("writeDocument", Head(paths), NoSecure)>> \o SecureOps(Tail(paths))

RECURSIVE UnsecureOps(_)
\* for (const path of unsecureResources) {
\*   const data = await accessor.getData(id);
\*   await accessor.writeDocument(id, data, new RepresentationMetadata(id), {secure: {'enable': 0}}); }
UnsecureOps(paths) ==
  IF paths = <<>> THEN <<>>
  ELSE <<SideOp("getData", Head(paths), NoSecure),
         SideOp("writeDocument", Head(paths), Secure(0))>> \o UnsecureOps(Tail(paths))

\* const secureResources = Object.values(deleteData).filter(...).map(...)
secureResources(algebra) == SecurePaths(DeleteData(algebra))

\* const unsecureResources = Object.values(insertData).filter(...).map(...)
unsecureResources(algebra) == SecurePaths(InsertData(algebra))

\* the accessor calls of the try block, in order: none without an algebra
\* (if (algebra) {...}), else those for the deleted secureOff objects, then
\* those for the inserted ones
SideOps(patch) ==
  IF patch.algebra.present
  THEN SecureOps(secureResources(patch.algebra))
         \o UnsecureOps(unsecureResources(patch.algebra))
  ELSE <<>>

\* const patched = await this.patcher.handleSafe({ patch, identifier, representation });
ApplyPatcher(r) ==
  /\ pc[r] = "patch"
  /\ LET patch == forwarded[r].body
         todo == SideOps(patch)
     IN \E out \in {Ok(ApplyPatch(patch, loc[r].representation)),
                    Fail(Error("ValidationError", "patcher"))} :
          /\ Log(r, Call("patcher", "handleSafe",
                         [patch |-> patch, identifier |-> forwarded[r].target,
                          representation |-> loc[r].representation], out))
          /\ IF out.ok
             THEN /\ loc' = [loc EXCEPT ![r].patched = out.value, ![r].todo = todo]
                  /\ pc' = [pc EXCEPT ![r] = IF todo = <<>> THEN "commit" ELSE "side"]
                  /\ UNCHANGED <<result, raised>>
             ELSE /\ Raise(r, out.error)
                  /\ Throw(r, out.error)
                  /\ UNCHANGED loc
  /\ UNCHANGED <<input0, operation, io, forwarded, store, sideVars>>

\* a catch block that hands the accessor's error on to the caller
SideFailedRethrown(r, e) ==
  /\ Raise(r, e)
  /\ Throw(r, e)
  /\ UNCHANGED loc

\* catch (err) { console.log(err); }: the try block is left and the handler
\* goes on to the commit
SideFailed(r, e) ==
  /\ Raise(r, e)
  /\ loc' = [loc EXCEPT ![r].todo = <<>>]
  /\ pc' = [pc EXCEPT ![r] = "commit"]
  /\ UNCHANGED result

\* one awaited accessor call of the try block; a throw ends the block
SideStep(r) ==
  /\ pc[r] = "side"
  /\ LET head == Head(loc[r].todo)
         rest == Tail(loc[r].todo)
         next == IF rest = <<>> THEN "commit" ELSE "side"
     IN IF head.op = "getData"
        THEN /\ io' = [io EXCEPT ![r] = Append(@, IoRead("accessor", "getData", head.id))]
             /\ IF store[head.id].exists
                THEN /\ loc' = [loc EXCEPT ![r].data = store[head.id].data, ![r].todo = rest]
                     /\ pc' = [pc EXCEPT ![r] = next]
                     /\ UNCHANGED <<raised, result>>
                ELSE SideFailed(r, Error("NotFound", "accessor"))
             /\ UNCHANGED store
        ELSE \E failed \in BOOLEAN :
               IF failed
               THEN /\ SideFailed(r, Error("InternalError", "accessor"))
                    /\ io' = [io EXCEPT ![r] =
                                Append(@, IoWrite("accessor", "writeDocument", head.id, FALSE))]
                    /\ UNCHANGED store
               ELSE LET file == File(loc[r].data, EnableOf(head.secure))
                    IN /\ store' = [store EXCEPT ![head.id] = file]
                       /\ io' = [io EXCEPT ![r] =
                                   Append(@, IoWrite("accessor", "writeDocument", head.id,
                                                     file # store[head.id]))]
                       /\ loc' = [loc EXCEPT ![r].todo = rest]
                       /\ pc' = [pc EXCEPT ![r] = next]
                       /\ UNCHANGED <<raised, result>>
  /\ UNCHANGED <<input0, operation, calls, forwarded, sideVars>>

\* a commit that leaves the caller's preferences out
CommitArgsNoPreferences(r) ==
  [identifier |-> forwarded[r].target, representation |-> loc[r].patched,
   conditions |-> Undefined, preferences |-> EmptyPreferences]

\* a commit of the representation read instead of the patched one
CommitArgsUnpatched(r) ==
  [identifier |-> forwarded[r].target, representation |-> loc[r].representation,
   conditions |-> Undefined, preferences |-> forwarded[r].preferences]

\* the arguments of source.setRepresentation(identifier, patched, undefined, preferences)
CommitArgs(r) ==
  [identifier |-> forwarded[r].target, representation |-> loc[r].patched,
   conditions |-> Undefined, preferences |-> forwarded[r].preferences]

\* return source.setRepresentation(identifier, patched, undefined, preferences)
Commit(r) ==
  /\ pc[r] = "commit"
  /\ LET args == CommitArgs(r)
         id == args.identifier
         after == SourceSet(store, id, args.representation, args.preferences)
     IN \E out \in {Ok(ids) : ids \in SourceChanged(store, id)}
                     \cup {Fail(Error("InternalError", "source"))} :
          /\ Log(r, Call("source", "setRepresentation", args, out))
          /\ IF out.ok
             THEN /\ store' = after
                  /\ io' = [io EXCEPT ![r] =
                              Append(@, IoWrite("store", "setRepresentation", id,
                                                after # store))]
                  /\ result' = [result EXCEPT ![r] = out]
                  /\ pc' = [pc EXCEPT ![r] = "done"]
                  /\ UNCHANGED raised
             ELSE /\ Raise(r, out.error)
                  /\ Throw(r, out.error)
                  /\ UNCHANGED <<store, io>>
  /\ UNCHANGED <<input0, operation, loc, forwarded, sideVars>>

\* the request is over: its operation, credentials, modes and permission set
\* are discarded; only the storage persists
Discard(r) ==
  /\ pc[r] \in {"done", "failed"}
  /\ pc' = [pc EXCEPT ![r] = "idle"]
  /\ input0' = [input0 EXCEPT ![r] = NoOperation]
  /\ operation' = [operation EXCEPT ![r] = NoOperation]
  /\ forwarded' = [forwarded EXCEPT ![r] = NoOperation]
  /\ loc' = [loc EXCEPT ![r] = NoLoc]
  /\ calls' = [calls EXCEPT ![r] = <<>>]
  /\ io' = [io EXCEPT ![r] = <<>>]
  /\ raised' = [raised EXCEPT ![r] = <<>>]
  /\ result' = [result EXCEPT ![r] = Pending]
  /\ UNCHANGED <<store, sideVars>>

(***************************************************************************)
(* PassthroughStore: a decorator D around a source store S.  Arguments are *)
(* positional, as in the method signatures.                                *)
(***************************************************************************)
StoreOps == {"hasResource", "getRepresentation", "addResource",
             "deleteResource", "modifyResource", "setRepresentation"}
PassIds == Ids
PassPreferences == {"undefined", "preferences"}
PassConditions == {"undefined", "conditions"}
PassRepresentations == {"representation"}
PassPatches == {"patch"}

\* the argument lists a caller can pass to each method of D
ArgsOf(op) ==
  CASE op = "hasResource" -> {<<id>> : id \in PassIds}
    [] op = "getRepresentation" ->
         {<<id, p, c>> : id \in PassIds, p \in PassPreferences \ {"undefined"}, c \in PassConditions}
    [] op = "addResource" ->
         {<<id, rp, c>> : id \in {Root}, rp \in PassRepresentations, c \in PassConditions}
    [] op = "deleteResource" -> {<<id, c>> : id \in PassIds, c \in PassConditions}
    [] op = "modifyResource" ->
         {<<id, pt, c, p>> : id \in PassIds, pt \in PassPatches,
                             c \in PassConditions, p \in PassPreferences}
    [] op = "setRepresentation" ->
         {<<id, rp, c, p>> : id \in PassIds, rp \in PassRepresentations,
                             c \in PassConditions, p \in PassPreferences}

\* what S can answer to a call
SourceOutcomes == {Ok("result"), Fail(Error("NotFound", "source"))}

\* a decorator written against the three-argument modifyResource, which
\* drops the preferences
PassthroughCallDropsPreferences(op, a) ==
  CASE op = "hasResource" -> [op |-> "hasResource", args |-> <<a[1]>>]
    [] op = "getRepresentation" -> [op |-> "getRepresentation", args |-> <<a[1], a[2], a[3]>>]
    [] op = "addResource" -> [op |-> "addResource", args |-> <<a[1], a[2], a[3]>>]
    [] op = "deleteResource" -> [op |-> "deleteResource", args |-> <<a[1], a[2]>>]
    [] op = "modifyResource" -> [op |-> "modifyResource", args |-> <<a[1], a[2], a[3], "undefined">>]
    [] op = "setRepresentation" -> [op |-> "setRepresentation", args |-> <<a[1], a[2], a[3], a[4]>>]

\* a decorator that forwards setRepresentation without the conditions
PassthroughCallDropsConditions(op, a) ==
  CASE op = "hasResource" -> [op |-> "hasResource", args |-> <<a[1]>>]
    [] op = "getRepresentation" -> [op |-> "getRepresentation", args |-> <<a[1], a[2], a[3]>>]
    [] op = "addResource" -> [op |-> "addResource", args |-> <<a[1], a[2], a[3]>>]
    [] op = "deleteResource" -> [op |-> "deleteResource", args |-> <<a[1], a[2]>>]
    [] op = "modifyResource" -> [op |-> "modifyResource", args |-> <<a[1], a[2], a[3], a[4]>>]
    [] op = "setRepresentation" ->
         [op |-> "setRepresentation", args |-> <<a[1], a[2], [set |-> FALSE, token |-> 0], a[4]>>]

\* the call D makes on its source for D.op(a): return this.source.op(...)
PassthroughCall(op, a) ==
  CASE op = "hasResource" -> [op |-> "hasResource", args |-> <<a[1]>>]
    [] op = "getRepresentation" -> [op |-> "getRepresentation", args |-> <<a[1], a[2], a[3]>>]
    [] op = "addResource" -> [op |-> "addResource", args |-> <<a[1], a[2], a[3]>>]
    [] op = "deleteResource" -> [op |-> "deleteResource", args |-> <<a[1], a[2]>>]
    [] op = "modifyResource" -> [op |-> "modifyResource", args |-> <<a[1], a[2], a[3], a[4]>>]
    [] op = "setRepresentation" -> [op |-> "setRepresentation", args |-> <<a[1], a[2], a[3], a[4]>>]

\* what D hands back for what S answered
PassthroughResult(out) == out

\* a caller invokes D.op(args); D calls its source before its first await
PassCall ==
  /\ Len(pcalls) < MaxCalls
  /\ Len(presults) = Len(pcalls)
  /\ \E op \in StoreOps : \E a \in ArgsOf(op) :
       /\ pcalls' = Append(pcalls, [op |-> op, args |-> a])
       /\ scalls' = Append(scalls, PassthroughCall(op, a))
  /\ UNCHANGED <<sresults, presults, reqVars, store, script, condVars, initializer, resolver>>

\* S settles the call; D settles with the same outcome
PassReturn ==
  /\ Len(presults) < Len(pcalls)
  /\ \E out \in SourceOutcomes :
       /\ sresults' = Append(sresults, out)
       /\ presults' = Append(presults, PassthroughResult(out))
  /\ UNCHANGED <<pcalls, scalls, reqVars, store, script, condVars, initializer, resolver>>

(***************************************************************************)
(* Two callers writing one resource under a condition, through a chain of  *)
(* PassthroughStores around a store that checks the condition and applies  *)
(* the write in one step.                                                  *)
(***************************************************************************)
Writers == {"w1", "w2"}

NoConditions == [set |-> FALSE, token |-> 0]
IfMatch(t) == [set |-> TRUE, token |-> t]

NoStoreCall == [op |-> "none", args |-> <<>>]

NewWriter ==
  [pc |-> "idle",
   id |-> Root,             \* the resource the caller works on
   token |-> 0,             \* the state token the caller read
   received |-> NoStoreCall, \* the call as the innermost store received it
   answer |-> Pending,      \* what the innermost store answered
   result |-> Pending]      \* what the outermost decorator returned

NewVersioned ==
  [chain |-> 0,             \* decorators around the store; 0: not built yet
   files |-> [id \in Ids |-> [representation |-> "R0", token |-> 0]]]

condOthers == <<reqVars, store, passVars, script, initializer, resolver>>

\* new PassthroughStore(source), once or nested
Wrap ==
  /\ versioned.chain = 0
  /\ \E n \in 1..MaxChain : versioned' = [versioned EXCEPT !.chain = n]
  /\ UNCHANGED <<writer, condOthers>>

\* a caller reads the resource and keeps its state token
ReadToken(w) ==
  /\ versioned.chain > 0
  /\ writer[w].pc = "idle"
  /\ \E id \in Ids :
       writer' = [writer EXCEPT ![w].pc = "ready", ![w].id = id,
                                   ![w].token = versioned.files[id].token]
  /\ UNCHANGED <<versioned, condOthers>>

RECURSIVE Forwarded(_, _)
\* the call that leaves a chain of n decorators for the call that entered it
Forwarded(n, call) ==
  IF n = 0 THEN call
  ELSE Forwarded(n - 1, PassthroughCall(call.op, call.args))

\* the caller invokes setRepresentation(id, R, IfMatch(T0)) on the outermost
\* decorator; each decorator calls its source before returning its promise
CallConditional(w) ==
  /\ writer[w].pc = "ready"
  /\ LET call == [op |-> "setRepresentation",
                  args |-> <<writer[w].id, w, IfMatch(writer[w].token), "undefined">>]
     IN writer' = [writer EXCEPT ![w].pc = "atSource",
                                 ![w].received = Forwarded(versioned.chain, call)]
  /\ UNCHANGED <<versioned, condOthers>>

\* the store evaluates the conditions against the current token and applies
\* the write in one step; PreconditionFailed leaves it unchanged
SourceApply(w) ==
  /\ writer[w].pc = "atSource"
  /\ LET id == writer[w].received.args[1]
         conditions == writer[w].received.args[3]
     IN IF ~conditions.set \/ conditions.token = versioned.files[id].token
        THEN /\ versioned' = [versioned EXCEPT
                  !.files[id] = [representation |-> writer[w].received.args[2],
                                 token |-> @.token + 1]]
             /\ writer' = [writer EXCEPT ![w].pc = "returning",
                                         ![w].answer = Ok(<<id>>)]
        ELSE /\ writer' = [writer EXCEPT ![w].pc = "returning",
                                         ![w].answer = Fail(Error("PreconditionFailed", "source"))]
             /\ UNCHANGED versioned
  /\ UNCHANGED condOthers

RECURSIVE Returned(_, _)
\* what a chain of n decorators returns for what its innermost source answered
Returned(n, out) ==
  IF n = 0 THEN out ELSE Returned(n - 1, PassthroughResult(out))

\* the promise of the outermost decorator settles
ReturnConditional(w) ==
  /\ writer[w].pc = "returning"
  /\ writer' = [writer EXCEPT ![w].pc = "returned",
                              ![w].result = Returned(versioned.chain, writer[w].answer)]
  /\ UNCHANGED <<versioned, condOthers>>

(***************************************************************************)
(* ContainerInitializer.handle (src/unnamed/part_000).  One record holds   *)
(* the configuration given to the constructor, the position in handle and  *)
(* what handle has done so far.                                            *)
(***************************************************************************)
\* file names readdir(accountFolder) can list
AccountFiles == {"f1", "f2", "f3"}

\* the listings readdir can return: no name twice
FileLists ==
  {fs \in UNION {[1..n -> AccountFiles] : n \in 0..MaxFiles} :
     \A i, j \in 1..Len(fs) : fs[i] = fs[j] => i = j}

NewInitializer ==
  [pc |-> "new", rootFilePath |-> FALSE,
   generated |-> <<>>,      \* identifiers the generator has yielded
   exhausted |-> FALSE,     \* the generator has returned
   attempts |-> <<>>,       \* store.setRepresentation calls and their outcome
   count |-> 0,
   warned |-> <<>>,         \* logger.warn: identifiers that failed
   listed |-> FALSE, files |-> <<>>,
   mkdir |-> FALSE, copied |-> <<>>,
   sets |-> 0,              \* calls of storage.set(storageKey, true)
   initialized |-> FALSE,   \* the flag held by the key-value storage
   failedBy |-> "none"]

initOthers == <<reqVars, store, passVars, script, condVars, resolver>>

\* new ContainerInitializer(args): rootFilePath is optional
InitializerConstruct ==
  /\ initializer.pc = "new"
  /\ \E configured \in BOOLEAN :
       initializer' = [initializer EXCEPT !.pc = "generate", !.rootFilePath = configured]
  /\ UNCHANGED initOthers

\* handle rejects with the error of the awaited call
InitializerFailed(by) ==
  initializer' = [initializer EXCEPT !.pc = "failed", !.failedBy = by]

\* a step after the loop that goes straight on to the flag
AfterGenerateSkipsCopy(rootFilePath) == "flag"

\* if(this.rootFilePath){ ... } await this.storage.set(...)
AfterGenerate(rootFilePath) == IF rootFilePath THEN "readdir" ELSE "flag"

\* for await (const { identifier, representation } of resources): the
\* generator yields its next resource, returns, or throws
Generate ==
  /\ initializer.pc = "generate"
  /\ \/ /\ Len(initializer.generated) < MaxResources
        /\ \E id \in Ids :
             initializer' = [initializer EXCEPT !.generated = Append(@, id), !.pc = "set"]
     \/ initializer' = [initializer EXCEPT !.exhausted = TRUE,
                                           !.pc = AfterGenerate(initializer.rootFilePath)]
     \/ InitializerFailed("generator")
  /\ UNCHANGED initOthers

\* try { await this.store.setRepresentation(resourceId, representation); count += 1; }
\* catch (error) { this.logger.warn(...); }
SetGenerated ==
  /\ initializer.pc = "set"
  /\ LET resourceId == initializer.generated[Len(initializer.generated)]
     IN \E ok \in BOOLEAN :
          initializer' =
            IF ok
            THEN [initializer EXCEPT !.attempts = Append(@, [id |-> resourceId, ok |-> TRUE]),
                                     !.count = @ + 1,
                                     !.pc = "generate"]
            ELSE [initializer EXCEPT !.attempts = Append(@, [id |-> resourceId, ok |-> FALSE]),
                                     !.warned = Append(@, resourceId),
                                     !.pc = "generate"]
  /\ UNCHANGED initOthers

\* const files = await fsPromises.readdir(this.accountFolder); if(files.length){
ReadDir ==
  /\ initializer.pc = "readdir"
  /\ \/ \E fs \in FileLists :
          initializer' = [initializer EXCEPT !.listed = TRUE, !.files = fs,
                                             !.pc = IF fs = <<>> THEN "flag" ELSE "mkdir"]
     \/ InitializerFailed("fs")
  /\ UNCHANGED initOthers

\* await fsPromises.mkdir(joinFilePath(this.rootFilePath, '.internal/accounts'))
MakeDir ==
  /\ initializer.pc = "mkdir"
  /\ \/ initializer' = [initializer EXCEPT !.mkdir = TRUE, !.pc = "copy"]
     \/ InitializerFailed("fs")
  /\ UNCHANGED initOthers

\* for (const name of files) { await fsPromises.copyFile(src, dst); }
CopyFile ==
  /\ initializer.pc = "copy"
  /\ LET name == initializer.files[Len(initializer.copied) + 1]
         last == Len(initializer.copied) + 1 = Len(initializer.files)
     IN \/ initializer' = [initializer EXCEPT !.copied = Append(@, name),
                                              !.pc = IF last THEN "flag" ELSE "copy"]
        \/ InitializerFailed("fs")
  /\ UNCHANGED initOthers

\* await this.storage.set(this.storageKey, true)
SetFlag ==
  /\ initializer.pc = "flag"
  /\ \/ initializer' = [initializer EXCEPT !.sets = @ + 1, !.initialized = TRUE,
                                           !.pc = "done"]
     \/ initializer' = [initializer EXCEPT !.sets = @ + 1, !.pc = "failed",
                                           !.failedBy = "storage"]
  /\ UNCHANGED initOthers

(***************************************************************************)
(* VarResolver.handle (src/unnamed/part_001)                               *)
(***************************************************************************)
\* the options declared in yargsArgOptions; "_" marks a positional argument
OptionKeys == {"port", "baseUrl"}
Token(option, value) == [option |-> option, value |-> value]
ArgTokens == {Token("port", "a"), Token("port", "b"), Token("baseUrl", "a"), Token("_", "a")}

\* process.argv: the executable, the script, then the arguments
Argvs ==
  {<<Token("_", "node"), Token("_", "script")>> \o ts :
     ts \in UNION {[1..n -> ArgTokens] : n \in 0..MaxArgs}}

\* the entries of the varComputers record, in Object.entries order
VarNames == <<"port", "baseUrl", "rootFilePath">>
ComputedValues == {"a", "b"}

RECURSIVE ValuesOf(_, _)
\* the values given for one option, in the order given
ValuesOf(ts, k) ==
  IF ts = <<>> THEN <<>>
  ELSE (IF Head(ts).option = k THEN <<Head(ts).value>> ELSE <<>>) \o ValuesOf(Tail(ts), k)

\* what yargs hands to the check callback: the positional arguments under
\* "_", and per option the values given (an array when given more than once)
YargsParse(ts) ==
  [positional |-> ValuesOf(ts, "_"),
   options |-> [k \in OptionKeys |-> ValuesOf(ts, k)]]

\* Array.isArray(val): yargs collects a repeated option into an array
IsArray(val) == Len(val) > 1

\* argv.slice(2)
Slice(argv) == SubSeq(argv, 3, Len(argv))

\* a check that lets repeated options through
validateArgumentsAllowsArrays(args) ==
  IF Len(args.positional) > 0
  THEN Fail(Error("Unsupported positional arguments", "check"))
  ELSE Ok(args)

\* if (args._.length > 0) throw ...; for each key other than '_':
\* if (Array.isArray(val)) throw ...; return true
validateArguments(args) ==
  IF Len(args.positional) > 0
  THEN Fail(Error("Unsupported positional arguments", "check"))
  ELSE IF \E k \in OptionKeys : IsArray(args.options[k])
  THEN Fail(Error("Multiple values were provided", "check"))
  ELSE Ok(args)

NoArgs == [positional |-> <<>>, options |-> [k \in OptionKeys |-> <<>>]]

NewResolver ==
  [pc |-> "new", argv |-> <<>>, args |-> NoArgs,
   vars |-> <<>>,           \* const vars: the [name, value] entries set so far
   vcalls |-> <<>>,         \* computer.handle calls: name, args, outcome
   result |-> Pending]

resolverOthers == <<reqVars, store, passVars, script, condVars, initializer>>

\* handle(argv) is called
ResolverReceive ==
  /\ resolver.pc = "new"
  /\ \E argv \in Argvs : resolver' = [resolver EXCEPT !.pc = "parse", !.argv = argv]
  /\ UNCHANGED resolverOthers

\* const args = await this.parseArgs(argv): yargs parses, runs the check,
\* and may reject for a reason of its own (strict mode, choices)
ParseArgs ==
  /\ resolver.pc = "parse"
  /\ LET checked == validateArguments(YargsParse(Slice(resolver.argv)))
     IN \E out \in {checked} \cup
                   (IF checked.ok THEN {Fail(Error("YError", "yargs"))} ELSE {}) :
          resolver' =
            IF out.ok
            THEN [resolver EXCEPT !.args = out.value, !.pc = "resolve"]
            ELSE [resolver EXCEPT !.result = out, !.pc = "failed"]
  /\ UNCHANGED resolverOthers

\* the error resolveVariables throws for a failing computer
VariableError(name, cause) ==
  [kind |-> "Error in computing value for variable", by |-> "resolveVariables",
   variable |-> name, cause |-> cause]

\* one turn of the loop of resolveVariables:
\* try { vars[name] = await computer.handle(args); } catch (err) { throw new Error(...) }
\* and, after the last entry, return vars
Compute ==
  /\ resolver.pc = "resolve"
  /\ LET name == VarNames[Len(resolver.vcalls) + 1]
         last == Len(resolver.vcalls) + 1 = Len(VarNames)
     IN \E out \in {Ok(v) : v \in ComputedValues}
                     \cup {Fail(Error("InternalError", "computer"))} :
          LET call == [name |-> name, args |-> resolver.args, outcome |-> out]
              vars1 == Append(resolver.vars, [name |-> name, value |-> out.value])
          IN resolver' =
               IF out.ok
               THEN [resolver EXCEPT !.vcalls = Append(@, call),
                                     !.vars = vars1,
                                     !.result = IF last THEN Ok(vars1) ELSE @,
                                     !.pc = IF last THEN "done" ELSE "resolve"]
               ELSE [resolver EXCEPT !.vcalls = Append(@, call),
                                     !.result = Fail(VariableError(name, out.error)),
                                     !.pc = "failed"]
  /\ UNCHANGED resolverOthers

(***************************************************************************)
(* Two handle calls in flight.  The steps are those of the handlers above, *)
(* taken by either call in any order; each specification below fixes what  *)
(* the callers pass in and what the collaborators answer.                  *)
(***************************************************************************)
Last(seq) == seq[Len(seq)]

\* a patch of a dialect without algebra for a PATCH, no body otherwise
PlainBody(op) == op.body = IF op.method = "PATCH" THEN OpaquePatch ELSE NoPatch

(***************************************************************************)
(* AuthorizingHttpHandler with test doubles for its five collaborators:    *)
(* script holds the operation given to both runs and the outcome each      *)
(* double gives; storage is whatever the machine happens to hold.          *)
(***************************************************************************)
Doubles == {"credentialsExtractor", "modesExtractor", "permissionReader",
            "operationHandler"}

NoScript ==
  [set |-> FALSE, target |-> Root, method |-> "GET", credentials |-> Anonymous,
   answer |-> [granted |-> {}, readOnly |-> {}], failing |-> "none"]

\* the test is set up: one operation, one outcome per double; the authorizer
\* double decides on what it is handed
Arrange ==
  /\ ~script.set
  /\ \E target \in Ids, method \in Methods, credentials \in CredentialSets,
        answer \in ReaderAnswers, failing \in Doubles \cup {"none"} :
       script' = [set |-> TRUE, target |-> target, method |-> method,
                  credentials |-> credentials, answer |-> answer, failing |-> failing]
  /\ UNCHANGED <<reqVars, store, passVars, condVars, initializer, resolver>>

\* the outcome of a call is the one the script gives its callee
AsScripted(call) ==
  /\ call.outcome.ok = (call.callee # script.failing)
  /\ (call.callee = "credentialsExtractor" /\ call.outcome.ok)
       => call.outcome.value = script.credentials
  /\ (call.callee = "permissionReader" /\ call.outcome.ok)
       => call.outcome.value = script.answer

\* handle is called with the operation of the script
DetReceive(r) ==
  /\ script.set
  /\ Receive(r)
  /\ operation'[r].target = script.target
  /\ operation'[r].method = script.method
  /\ ~operation'[r].preferences.secure.set
  /\ PlainBody(operation'[r])

\* a stage double answers
DetStage(r) ==
  /\ \/ ExtractCredentials(r)
     \/ ExtractModes(r)
     \/ ReadPermissions(r)
     \/ Authorize(r)
  /\ Last(calls'[r]).callee # "authorizer" => AsScripted(Last(calls'[r]))

\* the operationHandler double settles the call it was given
DoubleHandle(r) ==
  /\ pc[r] \in {"get", "read"}
  /\ IF script.failing = "operationHandler"
     THEN /\ Raise(r, Error("InternalError", "operationHandler"))
          /\ Throw(r, Error("InternalError", "operationHandler"))
     ELSE /\ result' = [result EXCEPT ![r] = Ok("response")]
          /\ pc' = [pc EXCEPT ![r] = "done"]
          /\ UNCHANGED raised
  /\ UNCHANGED <<input0, operation, loc, calls, io, forwarded, store, sideVars>>

\* what the directory ./.data can hold for the root container: nothing, its
\* metadata without secureOff entries, or metadata listing /a as secureOff
RootFiles == {NoFile, File({}, 1), File({Quad(SecureOffPredicate, "/a")}, 1)}

\* the storage of the machine differs from one run to the other
VaryStorage ==
  /\ script.set
  /\ \E file \in RootFiles :
       /\ file # store[Root]
       /\ store' = [store EXCEPT ![Root] = file]
  /\ UNCHANGED <<reqVars, sideVars>>

DetNext ==
  \/ Arrange
  \/ VaryStorage
  \/ \E r \in Runs :
       \/ DetReceive(r)
       \/ DetStage(r)
       \/ SecureLookup(r)
       \/ Forward(r)
       \/ DoubleHandle(r)

(***************************************************************************)
(* Two concurrent handle calls on different operations: r1 on the root     *)
(* container, r2 on the document, up to the call of operationHandler.      *)
(***************************************************************************)
TargetOf(r) == IF r = "r1" THEN Root ELSE "/a"

TwoReceive(r) ==
  /\ Receive(r)
  /\ operation'[r].target = TargetOf(r)
  /\ ~operation'[r].preferences.secure.set
  /\ PlainBody(operation'[r])

TwoNext ==
  \E r \in Runs :
    \/ TwoReceive(r)
    \/ ExtractCredentials(r)
    \/ ExtractModes(r)
    \/ ReadPermissions(r)
    \/ Authorize(r)
    \/ SecureLookup(r)
    \/ Forward(r)

(***************************************************************************)
(* Two concurrent PATCH requests on the root container, each authorized,   *)
(* each inserting or deleting one quad.                                    *)
(***************************************************************************)
OneQuadPatches ==
  {[algebra |-> Algebra(FALSE, <<>>, Update(TRUE, d, FALSE, <<>>))] : d \in OneQuad}
    \cup {[algebra |-> Algebra(FALSE, <<>>, Update(FALSE, <<>>, TRUE, i))] : i \in OneQuad}

\* the agent both requests are made for
Editor == "alice"

LostReceive(r) ==
  /\ Receive(r)
  /\ operation'[r].target = Root
  /\ operation'[r].method = "PATCH"
  /\ operation'[r].body \in OneQuadPatches
  /\ ~operation'[r].preferences.secure.set

\* a stage of the pipeline lets the request through
LostStage(r) ==
  /\ \/ ExtractCredentials(r)
     \/ ExtractModes(r)
     \/ ReadPermissions(r)
     \/ Authorize(r)
  /\ pc'[r] # "failed"
  /\ loc'[r].credentials = Editor
  /\ loc'[r].readOnly = {}

LostNext ==
  \E r \in Runs :
    \/ LostReceive(r)
    \/ LostStage(r)
    \/ SecureLookup(r)
    \/ Forward(r)
    \/ GetRepresentation(r)
    \/ ApplyPatcher(r)
    \/ SideStep(r)
    \/ Commit(r)

(***************************************************************************)
(* Specifications                                                          *)
(***************************************************************************)
Init ==
  /\ pc = [r \in Runs |-> "idle"]
  /\ input0 = [r \in Runs |-> NoOperation]
  /\ operation = input0
  /\ forwarded = input0
  /\ loc = [r \in Runs |-> NoLoc]
  /\ calls = [r \in Runs |-> <<>>]
  /\ io = [r \in Runs |-> <<>>]
  /\ raised = [r \in Runs |-> <<>>]
  /\ result = [r \in Runs |-> Pending]
  /\ store = [id \in Ids |-> IF id = Root THEN File({}, 1) ELSE NoFile]
  /\ pcalls = <<>>
  /\ scalls = <<>>
  /\ sresults = <<>>
  /\ presults = <<>>
  /\ script = NoScript
  /\ writer = [w \in Writers |-> NewWriter]
  /\ versioned = NewVersioned
  /\ initializer = NewInitializer
  /\ resolver = NewResolver

Next ==
  \E r \in Reqs :
    \/ Receive(r)
    \/ ExtractCredentials(r)
    \/ ExtractModes(r)
    \/ ReadPermissions(r)
    \/ Authorize(r)
    \/ SecureLookup(r)
    \/ Forward(r)
    \/ HandleGet(r)
    \/ GetRepresentation(r)
    \/ ApplyPatcher(r)
    \/ SideStep(r)
    \/ Commit(r)
    \/ Discard(r)

Spec == Init /\ [][Next]_vars

PassNext == PassCall \/ PassReturn

SpecPass == Init /\ [][PassNext]_vars

InitializerNext ==
  \/ InitializerConstruct
  \/ Generate
  \/ SetGenerated
  \/ ReadDir
  \/ MakeDir
  \/ CopyFile
  \/ SetFlag

SpecInitializer == Init /\ [][InitializerNext]_vars

CondNext ==
  \/ Wrap
  \/ \E w \in Writers :
       \/ ReadToken(w)
       \/ CallConditional(w)
       \/ SourceApply(w)
       \/ ReturnConditional(w)

SpecCond == Init /\ [][CondNext]_vars

ResolverNext == ResolverReceive \/ ParseArgs \/ Compute

SpecResolver == Init /\ [][ResolverNext]_vars

SpecDoubles == Init /\ [][DetNext]_vars

SpecTwo == Init /\ [][TwoNext]_vars

SpecLost == Init /\ [][LostNext]_vars

(***************************************************************************)
(* Properties                                                              *)
(***************************************************************************)
AuthStages == {"credentialsExtractor", "modesExtractor", "permissionReader", "authorizer"}
StageOrder == <<"credentialsExtractor", "modesExtractor", "permissionReader",
                "authorizer", "operationHandler">>

\* the calls of request r on callee c
CallsOn(r, c) == {i \in 1..Len(calls[r]) : calls[r][i].callee = c}
\* the storage operations of request r that wrote
Writes(r) == {i \in 1..Len(io[r]) : io[r][i].write}

\* C1: when one of the four stages of AuthorizingHttpHandler.handle fails,
\* that call is the last call of the request, the request fails with the
\* stage's error, operationHandler is never invoked and the request performs
\* no operation on storage.
C1_StageFailureShortCircuits ==
  \A r \in Reqs : \A i \in 1..Len(calls[r]) :
    (calls[r][i].callee \in AuthStages /\ ~calls[r][i].outcome.ok) =>
      /\ i = Len(calls[r])
      /\ pc[r] = "failed"
      /\ ~result[r].ok
      /\ result[r].error = calls[r][i].outcome.error
      /\ CallsOn(r, "operationHandler") = {}
      /\ forwarded[r] = NoOperation
      /\ io[r] = <<>>

\* a request whose authorizer call failed, after three successful stages
C1_Witness ==
  \E r \in Reqs :
    /\ Len(calls[r]) = 4
    /\ calls[r][4].callee = "authorizer"
    /\ ~calls[r][4].outcome.ok
    /\ pc[r] = "failed"

\* C4: the input operationHandler receives is the caller's input with the
\* permission set attached and no other field changed.
C4_ForwardedUnmodifiedOtherwise ==
  \A r \in Reqs :
    CallsOn(r, "operationHandler") # {} =>
      forwarded[r] = [input0[r] EXCEPT !.permissionSet = Permissions(loc[r].permissionSet)]

\* C8: the calls of one handle run are a prefix of credentialsExtractor,
\* modesExtractor, permissionReader, authorizer, operationHandler, each made
\* once and only after the call before it succeeded; storage is touched only
\* after the authorizer succeeded.
C8_StagesInSequence ==
  \A r \in Reqs :
    /\ \A i \in 1..Len(calls[r]) :
         /\ i <= Len(StageOrder) => calls[r][i].callee = StageOrder[i]
         /\ i > Len(StageOrder) => calls[r][i].callee \notin Range(StageOrder)
         /\ (1 < i /\ i <= Len(StageOrder)) => calls[r][i - 1].outcome.ok
    /\ io[r] # <<>> =>
         /\ Len(calls[r]) >= 4
         /\ calls[r][4].callee = "authorizer"
         /\ calls[r][4].outcome.ok

\* a request that went through all five calls and then wrote to storage
C8_Witness ==
  \E r \in Reqs :
    /\ Len(calls[r]) >= 5
    /\ calls[r][5].callee = "operationHandler"
    /\ Writes(r) # {}

\* the calls of the patch handler: those after the operationHandler call
PatchCalls(r) == SubSeq(calls[r], Len(StageOrder) + 1, Len(calls[r]))

IsCall(c, callee, op) == c.callee = callee /\ c.op = op

\* the pre-read or the patcher failed in a way the handler does not recover
PatchAborted(c) ==
  \/ IsCall(c, "source", "getRepresentation") /\ ~c.outcome.ok
       /\ c.outcome.error.kind # "NotFound"
  \/ IsCall(c, "patcher", "handleSafe") /\ ~c.outcome.ok

\* C2: when the pre-read of RepresentationPatchHandler.handle fails with an
\* error other than NotFound, or the patcher fails, that call is the last of
\* the request: setRepresentation is never invoked, the request fails, and it
\* has written nothing to storage.
C2_FailedReadOrPatchNeverCommits ==
  \A r \in Reqs : \A i \in 1..Len(calls[r]) :
    PatchAborted(calls[r][i]) =>
      /\ i = Len(calls[r])
      /\ pc[r] = "failed"
      /\ \A j \in 1..Len(calls[r]) : ~IsCall(calls[r][j], "source", "setRepresentation")
      /\ Writes(r) = {}

\* a patch whose quads name secure resources, aborted by its patcher
C2_Witness ==
  \E r \in Reqs :
    /\ pc[r] = "failed"
    /\ Len(calls[r]) = 7
    /\ IsCall(calls[r][7], "patcher", "handleSafe")
    /\ ~calls[r][7].outcome.ok
    /\ SideOps(forwarded[r].body) # <<>>
    /\ store[forwarded[r].target].exists

\* C5: when the pre-read fails with NotFound, handle does not fail with that
\* error: the next call is the patcher with the representation absent; when
\* the patcher succeeds the next call is setRepresentation with the patcher's
\* result; and when handle has succeeded the resource exists with exactly the
\* data the patcher produced.
C5_PatchCreatesMissingResource ==
  \A r \in Reqs :
    LET cs == PatchCalls(r)
    IN (Len(cs) >= 1 /\ ~cs[1].outcome.ok /\ cs[1].outcome.error.kind = "NotFound") =>
         /\ pc[r] = "failed" => result[r].error.kind # "NotFound"
         /\ pc[r] # "patch"
              => /\ Len(cs) >= 2
                 /\ IsCall(cs[2], "patcher", "handleSafe")
                 /\ cs[2].args.representation = NoRep
                 /\ cs[2].args.identifier = forwarded[r].target
         /\ (pc[r] \in {"done", "failed"} /\ Len(cs) >= 2 /\ cs[2].outcome.ok)
              => /\ Len(cs) = 3
                 /\ IsCall(cs[3], "source", "setRepresentation")
                 /\ cs[3].args.identifier = forwarded[r].target
                 /\ cs[3].args.representation = cs[2].outcome.value
         /\ pc[r] = "done"
              => /\ store[forwarded[r].target].exists
                 /\ store[forwarded[r].target].data = cs[2].outcome.value.data

\* a patch with insertions on a missing document, committed
C5_Witness ==
  \E r \in Reqs :
    LET cs == PatchCalls(r)
    IN /\ pc[r] = "done"
       /\ Len(cs) = 3
       /\ ~cs[1].outcome.ok
       /\ cs[1].outcome.error.kind = "NotFound"
       /\ forwarded[r].target \in Docs
       /\ store[forwarded[r].target].data # {}

\* C6: a patch handle that ends in failure has changed no file of storage.
C6_RejectedPatchLeavesStorage ==
  \A r \in Reqs :
    (pc[r] = "failed" /\ PatchCalls(r) # <<>>) =>
      \A i \in Writes(r) : ~io[r][i].changed

\* C7: during patch handling, storage is written only by the one
\* source.setRepresentation commit, on the patched identifier.
C7_OnlyTheCommitWrites ==
  \A r \in Reqs :
    /\ \A i \in Writes(r) :
         /\ io[r][i].via = "store"
         /\ io[r][i].op = "setRepresentation"
         /\ io[r][i].id = forwarded[r].target
    /\ Cardinality(Writes(r)) <= 1

\* C9: a successful patch handle made exactly three calls: getRepresentation
\* (identifier, {}) without conditions; the patcher with the caller's patch,
\* the identifier and the representation read (absent after NotFound);
\* setRepresentation(identifier, patched, undefined, preferences) with the
\* caller's preferences; and it returns what setRepresentation returned.
C9_SuccessfulPatchCallSequence ==
  \A r \in Reqs :
    (pc[r] = "done" /\ forwarded[r].method = "PATCH") =>
      LET cs == PatchCalls(r)
          id == forwarded[r].target
      IN /\ Len(cs) = 3
         /\ IsCall(cs[1], "source", "getRepresentation")
         /\ cs[1].args = [identifier |-> id, preferences |-> EmptyPreferences,
                          conditions |-> Undefined]
         /\ IsCall(cs[2], "patcher", "handleSafe")
         /\ cs[2].outcome.ok
         /\ cs[2].args = [patch |-> input0[r].body, identifier |-> id,
                          representation |-> IF cs[1].outcome.ok
                                             THEN cs[1].outcome.value ELSE NoRep]
         /\ IsCall(cs[3], "source", "setRepresentation")
         /\ cs[3].args = [identifier |-> id, representation |-> cs[2].outcome.value,
                          conditions |-> Undefined,
                          preferences |-> forwarded[r].preferences]
         /\ cs[3].outcome.ok
         /\ result[r] = cs[3].outcome

\* a successful patch of an existing document whose preferences carry a
\* secure entry, returning the list the store reported
C9_Witness ==
  \E r \in Reqs :
    /\ pc[r] = "done"
    /\ forwarded[r].method = "PATCH"
    /\ PatchCalls(r)[1].outcome.ok
    /\ forwarded[r].preferences.secure.set
    /\ result[r].ok
    /\ Len(result[r].value) = 1

\* C10: when a request is over, every error a callee raised during it,
\* other than NotFound from the patch pre-read, is the error the request
\* failed with; and a failed request failed with the last error raised.
C10_NoFailureRecovered ==
  \A r \in Reqs :
    pc[r] \in {"done", "failed"} =>
      /\ \A i \in 1..Len(raised[r]) :
           LET e == raised[r][i]
           IN ~(e.kind = "NotFound" /\ e.by = "source" /\ forwarded[r].method = "PATCH") =>
                /\ pc[r] = "failed"
                /\ result[r].error = e
      /\ pc[r] = "failed" =>
           /\ raised[r] # <<>>
           /\ result[r].error = raised[r][Len(raised[r])]

\* C3: every call on the decorator made exactly one call on the source, the
\* same operation with the same arguments in the same positions, and the
\* decorator returned exactly what the source answered.
C3_PureDelegation ==
  /\ Len(scalls) = Len(pcalls)
  /\ \A i \in 1..Len(pcalls) :
       /\ scalls[i].op = pcalls[i].op
       /\ scalls[i].args = pcalls[i].args
  /\ Len(sresults) = Len(presults)
  /\ \A i \in 1..Len(presults) : presults[i] = sresults[i]

\* modifyResource with conditions and preferences, which the source rejected
C3_Witness ==
  \E i \in 1..Len(presults) :
    /\ pcalls[i].op = "modifyResource"
    /\ pcalls[i].args[3] = "conditions"
    /\ pcalls[i].args[4] = "preferences"
    /\ ~presults[i].ok

\* C11: while a patch request is between its pre-read and its commit, a
\* reader of storage sees the state from before the patch: no file has been
\* changed by the request yet.
C11_NoPartialPatchVisible ==
  \A r \in Reqs :
    (PatchCalls(r) # <<>> /\ pc[r] \in {"patch", "side", "commit"}) =>
      \A i \in Writes(r) : ~io[r][i].changed

\* C15: permissionReader is called with the credentials credentialsExtractor
\* returned, the operation's target and the modes modesExtractor returned;
\* authorizer with the same three plus the permission set the reader
\* returned; the forwarded operation carries that same set, and a set is
\* attached to the operation only once the authorizer call succeeded.
C15_StageArgumentsThreaded ==
  \A r \in Reqs :
    LET cs == calls[r]
    IN /\ Len(cs) >= 3 =>
            cs[3].args = [credentials |-> cs[1].outcome.value,
                          identifier |-> input0[r].target,
                          modes |-> cs[2].outcome.value]
       /\ Len(cs) >= 4 =>
            cs[4].args = [credentials |-> cs[1].outcome.value,
                          identifier |-> input0[r].target,
                          modes |-> cs[2].outcome.value,
                          permissionSet |-> cs[3].outcome.value.granted]
       /\ operation[r].permissionSet.attached =>
            /\ Len(cs) >= 4
            /\ cs[4].outcome.ok
            /\ operation[r].permissionSet.granted = cs[3].outcome.value.granted
       /\ Len(cs) >= 5 =>
            /\ forwarded[r].permissionSet.attached
            /\ forwarded[r].permissionSet.granted = cs[3].outcome.value.granted

\* a forwarded PATCH of a known agent, with the modes the reader granted
C15_Witness ==
  \E r \in Reqs :
    /\ Len(calls[r]) >= 5
    /\ calls[r][1].outcome.value = "alice"
    /\ forwarded[r].method = "PATCH"
    /\ forwarded[r].permissionSet.granted # {}

\* C19: once the patcher has succeeded, a finished patch handle has called
\* source.setRepresentation exactly once, with the patcher's result, whether
\* the accessor block ran through, stopped midway or threw; and no error of
\* the accessor is what the caller gets.
C19_CommitFollowsPatcher ==
  \A r \in Reqs :
    LET cs == PatchCalls(r)
    IN (Len(cs) >= 2 /\ cs[2].outcome.ok) =>
         /\ pc[r] \in {"done", "failed"} =>
              /\ Len(cs) = 3
              /\ IsCall(cs[3], "source", "setRepresentation")
              /\ cs[3].args.representation = cs[2].outcome.value
              /\ cs[3].args.identifier = forwarded[r].target
         /\ Cardinality({i \in 1..Len(cs) : IsCall(cs[i], "source", "setRepresentation")}) <= 1
         /\ pc[r] = "failed" => result[r].error.by # "accessor"

\* a patch that succeeded although an accessor call of its side block threw
C19_Witness ==
  \E r \in Reqs :
    /\ pc[r] = "done"
    /\ Len(PatchCalls(r)) = 3
    /\ \E i \in 1..Len(raised[r]) : raised[r][i].by = "accessor"
    /\ \E i \in 1..Len(io[r]) : io[r][i].op = "getData"

\* the target is listed as a secureOff value of the parent's metadata
ListedSecureOff(st, target) ==
  \E q \in st[getParentContainer(target)].data :
    q.predicate = SecureOffPredicate /\ q.object = target

\* the parent-metadata lookup of request r threw
LookupFailed(r) == \E i \in 1..Len(raised[r]) : raised[r][i].by = "accessor"

\* C20: when operationHandler has just been called: it was called once; for
\* a non-root target whose parent metadata was read, preferences.secure.enable
\* is 0 if that metadata lists the target as secureOff and 1 otherwise; for
\* the root container, or when the lookup threw, preferences.secure is what
\* the caller supplied.
C20_SecurePreferenceFromParent ==
  \A r \in Reqs :
    (Len(calls[r]) = 5 /\ pc[r] \in {"read", "get"}) =>
      LET target == forwarded[r].target
          secure == forwarded[r].preferences.secure
      IN /\ Cardinality(CallsOn(r, "operationHandler")) = 1
         /\ IF isRootContainer(target) \/ LookupFailed(r)
            THEN secure = input0[r].preferences.secure
            ELSE /\ secure.set
                 /\ secure.enable = IF ListedSecureOff(store, target) THEN 0 ELSE 1

\* a forwarded operation on a document the parent lists as secureOff, whose
\* caller had supplied no secure preference
C20_Witness ==
  \E r \in Reqs :
    /\ Len(calls[r]) = 5
    /\ pc[r] \in {"read", "get"}
    /\ ~isRootContainer(forwarded[r].target)
    /\ ~LookupFailed(r)
    /\ ListedSecureOff(store, forwarded[r].target)
    /\ ~input0[r].preferences.secure.set
    /\ forwarded[r].preferences.secure = Secure(0)

\* the attempts of the initializer that failed
FailedAttempts == {i \in 1..Len(initializer.attempts) : ~initializer.attempts[i].ok}

\* C16: every generated resource is passed to store.setRepresentation once,
\* in generation order; a failed attempt is logged and the loop goes on; the
\* flag is set at most once, only after the generator is exhausted and every
\* resource was attempted and, with rootFilePath configured, after the
\* listing, the mkdir and every copy succeeded; a finished handle has set it
\* exactly once; a failing copy step fails handle with the flag never set.
C16_SeedThenCopyThenFlag ==
  LET i == initializer
  IN /\ Len(i.attempts) <= Len(i.generated)
     /\ Len(i.generated) <= Len(i.attempts) + 1
     /\ i.pc # "set" /\ i.pc # "failed" => Len(i.attempts) = Len(i.generated)
     /\ \A k \in 1..Len(i.attempts) : i.attempts[k].id = i.generated[k]
     /\ i.count = Len(i.attempts) - Cardinality(FailedAttempts)
     /\ Len(i.warned) = Cardinality(FailedAttempts)
     /\ i.failedBy # "store"
     /\ i.sets <= 1
     /\ i.sets = 1 =>
          /\ i.exhausted
          /\ Len(i.attempts) = Len(i.generated)
          /\ i.rootFilePath =>
               /\ i.listed
               /\ i.copied = i.files
               /\ i.files # <<>> => i.mkdir
     /\ i.pc = "done" => i.sets = 1 /\ i.initialized
     /\ i.failedBy \in {"fs", "generator"} => i.sets = 0 /\ ~i.initialized
     /\ i.initialized => i.pc = "done"

\* a finished initialization whose first resource failed to be stored, whose
\* second was stored, and which copied two account files before the flag
C16_Witness ==
  /\ initializer.pc = "done"
  /\ Len(initializer.attempts) = 2
  /\ ~initializer.attempts[1].ok
  /\ initializer.attempts[2].ok
  /\ initializer.rootFilePath
  /\ Len(initializer.copied) = 2
  /\ initializer.sets = 1

\* the arguments handle was given, after the executable and the script
GivenTokens == Slice(resolver.argv)

\* C17: the computers are called one at a time in the order of the record,
\* each with the parsed args, and only when argv held no positional argument
\* and no option twice; when all succeeded the result has one entry per
\* computer, in that order, each with that computer's value; when one failed
\* it was the last one called, handle failed with an error naming its
\* variable, and handle returned no record.
C17_ComputersInOrder ==
  LET v == resolver
  IN /\ Len(v.vcalls) <= Len(VarNames)
     /\ \A i \in 1..Len(v.vcalls) :
          /\ v.vcalls[i].name = VarNames[i]
          /\ v.vcalls[i].args = v.args
          /\ i > 1 => v.vcalls[i - 1].outcome.ok
          /\ ~v.vcalls[i].outcome.ok =>
               /\ i = Len(v.vcalls)
               /\ v.pc = "failed"
               /\ ~v.result.ok
               /\ v.result.error.variable = VarNames[i]
               /\ v.result.error.cause = v.vcalls[i].outcome.error
     /\ v.vcalls # <<>> =>
          /\ \A i \in 1..Len(GivenTokens) : GivenTokens[i].option # "_"
          /\ \A i, j \in 1..Len(GivenTokens) :
               GivenTokens[i].option = GivenTokens[j].option => i = j
          /\ v.args = YargsParse(GivenTokens)
     /\ v.pc = "done" =>
          /\ v.result.ok
          /\ Len(v.result.value) = Len(VarNames)
          /\ \A i \in 1..Len(VarNames) :
               /\ v.vcalls[i].outcome.ok
               /\ v.result.value[i] = [name |-> VarNames[i],
                                        value |-> v.vcalls[i].outcome.value]

\* two options given once each, the first computer succeeded, the second
\* failed and the third was never called
C17_Witness ==
  /\ resolver.pc = "failed"
  /\ Len(GivenTokens) = 2
  /\ Len(resolver.vcalls) = 2
  /\ resolver.vcalls[1].outcome.ok
  /\ ~resolver.vcalls[2].outcome.ok
  /\ resolver.result.error.variable = "baseUrl"

\* C12: the store receives each conditional setRepresentation with the
\* caller's identifier, representation and conditions unchanged; and when
\* two callers that read the same token of the same resource have both
\* returned, exactly one
\* succeeded, the other failed with PreconditionFailed, the decorator
\* returned the store's answer, and the stored representation is the
\* successful caller's.
C12_OneConditionalWriterWins ==
  /\ \A w \in Writers :
       writer[w].pc \in {"atSource", "returning", "returned"} =>
         /\ writer[w].received.op = "setRepresentation"
         /\ writer[w].received.args = <<writer[w].id, w, IfMatch(writer[w].token), "undefined">>
  /\ \A w \in Writers : writer[w].pc = "returned" => writer[w].result = writer[w].answer
  /\ \A w1, w2 \in Writers :
       (w1 # w2 /\ writer[w1].pc = "returned" /\ writer[w2].pc = "returned"
          /\ writer[w1].id = writer[w2].id /\ writer[w1].token = writer[w2].token) =>
         \E won, lost \in {w1, w2} :
           /\ won # lost
           /\ writer[won].result.ok
           /\ ~writer[lost].result.ok
           /\ writer[lost].result.error.kind = "PreconditionFailed"
           /\ versioned.files[writer[won].id].representation = won

\* both callers read token 0 and have returned through two nested decorators
C12_Witness ==
  /\ versioned.chain = 2
  /\ \A w \in Writers :
       writer[w].pc = "returned" /\ writer[w].id = "/a" /\ writer[w].token = 0
  /\ versioned.files["/a"].token = 1

\* the handle call r is over
Finished(r) == pc[r] \in {"done", "failed"}

\* C13: two runs of handle given the same operation and the same outcomes
\* of their doubles, on whatever storage each finds, make the same calls
\* with the same outcomes as far as they both got; and when both are over
\* they made the same calls and ended alike, in success or with one error.
C13_ControlFlowFromDoublesOnly ==
  \A a, b \in Runs :
    /\ \A i \in 1..Len(calls[a]) :
         i <= Len(calls[b]) =>
           /\ calls[a][i].callee = calls[b][i].callee
           /\ calls[a][i].op = calls[b][i].op
           /\ calls[a][i].outcome = calls[b][i].outcome
    /\ (Finished(a) /\ Finished(b)) =>
         /\ Len(calls[a]) = Len(calls[b])
         /\ pc[a] = pc[b]
         /\ result[a] = result[b]

\* two runs that both succeeded, one whose parent-metadata lookup threw and
\* one whose lookup found the target listed as secureOff
C13_Witness ==
  /\ pc["r1"] = "done"
  /\ pc["r2"] = "done"
  /\ LookupFailed("r1")
  /\ ~LookupFailed("r2")
  /\ forwarded["r2"].preferences.secure = Secure(0)
  /\ ~forwarded["r1"].preferences.secure.set

\* C14: with two handle calls interleaved, the authorizer of each call is
\* handed the credentials, modes and permission set that the extractors and
\* the reader returned to that call, for that call's target, and the
\* operation each call forwards carries that call's permission set and
\* attribute permissions.
C14_NoStateSharedBetweenCalls ==
  \A r \in Runs :
    LET cs == calls[r]
    IN /\ Len(cs) >= 4 =>
            /\ cs[4].callee = "authorizer"
            /\ cs[4].args.credentials = cs[1].outcome.value
            /\ cs[4].args.modes = cs[2].outcome.value
            /\ cs[4].args.permissionSet = cs[3].outcome.value.granted
            /\ cs[4].args.identifier = input0[r].target
       /\ Len(cs) >= 5 =>
            /\ forwarded[r].target = input0[r].target
            /\ forwarded[r].permissionSet.attached
            /\ forwarded[r].permissionSet.granted = cs[3].outcome.value.granted
            /\ forwarded[r].attributePermissions.attached
            /\ forwarded[r].attributePermissions.readOnly = cs[3].outcome.value.readOnly

\* both calls forwarded their operation, for different agents and with
\* different attribute permissions
C14_Witness ==
  /\ \A r \in Runs : Len(calls[r]) = 5
  /\ calls["r1"][1].outcome.value # calls["r2"][1].outcome.value
  /\ forwarded["r1"].attributePermissions # forwarded["r2"].attributePermissions
  /\ forwarded["r1"].target # forwarded["r2"].target

\* the data a patch leaves of the given data
PatchedData(patch, data) == ApplyPatch(patch, Rep(data)).data

\* the root container's data after both patches, one after the other, on its
\* initial data
InSequence(p, q) == PatchedData(q, PatchedData(p, {}))

\* C18 as claimed: when two concurrent patch calls on one identifier have
\* both succeeded, the stored representation is the result of the two
\* patches applied one after the other in some order.
C18_NoLostUpdate ==
  \A a, b \in Runs :
    (a # b /\ pc[a] = "done" /\ pc[b] = "done") =>
      store[Root].data \in {InSequence(forwarded[a].body, forwarded[b].body),
                            InSequence(forwarded[b].body, forwarded[a].body)}

\* C18 as the handler behaves: each call commits, without conditions, the
\* patcher's result for the representation its own pre-read returned; when
\* both calls have succeeded the stored representation is the one of them
\* committed last.
C18_LastCommitWins ==
  /\ \A r \in Runs : \A i \in 1..Len(calls[r]) :
       IsCall(calls[r][i], "source", "setRepresentation") =>
         /\ calls[r][i].args.representation
              = ApplyPatch(forwarded[r].body, loc[r].representation)
         /\ calls[r][i].args.conditions = Undefined
  /\ \A a, b \in Runs :
       (a # b /\ pc[a] = "done" /\ pc[b] = "done") =>
         store[Root].data \in {loc[a].patched.data, loc[b].patched.data}

\* both calls read the empty container, both succeeded, and the stored data
\* holds one patch's quad only
C18_Witness ==
  /\ pc["r1"] = "done"
  /\ pc["r2"] = "done"
  /\ loc["r1"].representation = Rep({})
  /\ loc["r2"].representation = Rep({})
  /\ Cardinality(store[Root].data) = 1
  /\ Cardinality(InSequence(forwarded["r1"].body, forwarded["r2"].body)) = 2

====
